---- MODULE Spec2Model ----
(***************************************************************************)
(* svg-objects-export.py: batch export of SVG objects through the Inkscape *)
(* command line.  The script is modelled as a sequential program with a    *)
(* program counter; external invocations (inkscape -V, --query-all, the    *)
(* export command) are split in a launch and a completion so that the      *)
(* synchronous waiting of subprocess.check_call/check_output is visible.   *)
(* Strings the script computes with (identifiers, patterns, paths) are     *)
(* sequences of one-character strings.                                     *)
(***************************************************************************)
EXTENDS Integers, Sequences, FiniteSets, TLC

VARIABLES
    infiles,      \* args.infiles
    pattern,      \* args.pattern
    cli_exclude,  \* -e given on the command line
    exclude,      \* args.exclude after the defaulting of lines 104-105
    destdir,      \* args.destdir
    silent,       \* args.silent
    force,        \* args.force
    type,         \* args.type
    extension,    \* extension, lines 107-108
    pc,           \* position of the script
    fi,           \* index of infile in args.infiles
    objects,      \* objects.splitlines() of the current infile
    oi,           \* index of obj in objects
    destfile,     \* destfile of the current obj
    retries,      \* invalid answers read by the running confirm()
    fs,           \* paths that exist on the file system
    inflight,     \* external invocations in progress
    result,       \* whether the last external invocation succeeded
    exitcode,     \* exit status of the script, -1 while it runs
    queried,      \* the infiles queried so far, in order
    examined,     \* the lines of the current infile examined so far, in order
    trace         \* what happened since the script last took an item
                  \* (an infile or an obj), in order

vars == <<infiles, pattern, cli_exclude, exclude, destdir, silent, force, type,
          extension, pc, fi, objects, oi, destfile, retries, fs, inflight,
          result, exitcode, queried, examined, trace>>

config == <<infiles, pattern, cli_exclude, destdir, silent, force, type>>

----------------------------------------------------------------------------
(* Bounds *)

MaxFiles == 2

MaxRetries == 1

----------------------------------------------------------------------------
(* Strings *)

Digit == {"0", "1", "2", "3", "4", "5", "6", "7", "8", "9"}

\* the atom \d of a regular expression
D == "\\d"

\* default_pattern, line 33: '^(rect|layer|path|use|g\d|svg|text|tspan)\d'
default_pattern ==
    [anchored |-> TRUE,
     groups |-> << { <<"r","e","c","t">>, <<"l","a","y","e","r">>,
                     <<"p","a","t","h">>, <<"u","s","e">>, <<"g", D>>,
                     <<"s","v","g">>, <<"t","e","x","t">>,
                     <<"t","s","p","a","n">> },
                   { <<D>> } >>]

\* --pattern '^export', the first example of the epilog
pattern_export == [anchored |-> TRUE, groups |-> << { <<"e","x","p","o","r","t">> } >>]

\* --pattern '[0-9]', the third example of the epilog
pattern_digit == [anchored |-> FALSE, groups |-> << { <<D>> } >>]

Patterns == {default_pattern, pattern_export, pattern_digit}

png == <<"p","n","g">>

ps == <<"p","s">>

eps == <<"e","p","s">>

pdf == <<"p","d","f">>

plain_svg == <<"p","l","a","i","n","-","s","v","g">>

\* choices=['png', 'ps', 'eps', 'pdf', 'plain-svg'], line 84
TypeChoices == {png, ps, eps, pdf, plain_svg}

\* --destdir: its default './' (line 76) and out/
DestDirs == { <<".","/">>, <<"o","u","t","/">> }

a_svg == "a.svg"

b_svg == "b.svg"

NL == "\n"

\* what `inkscape --query-all infile` prints: one line per element,
\* <identifier>,<other fields>
QueryAll(infile) ==
    IF infile = a_svg
    THEN <<"e","x","p","o","r","t","1",",","0",NL,
           "r","e","c","t","3","3","8","1",",","5",NL>>
    ELSE <<"i","c","o","n","1",",","0",",","2",NL,
           "e","x","p","o","r","t","1",",","7",NL,
           "l","o","g","o",NL>>

InFileLists ==
    UNION { [1..n -> {a_svg, b_svg}] : n \in 1..MaxFiles }

\* identifiers whose destination file may exist before the run
PreExisting == { <<"e","x","p","o","r","t","1">>, <<"l","o","g","o">> }

\* answers typed at the prompt of confirm()
Answers == {"", "y", "Y", "n", "N", "x"}

----------------------------------------------------------------------------
(* Pure functions of the script *)

\* str.splitlines() for "\n" line ends
RECURSIVE splitlines_from(_, _, _)
splitlines_from(s, i, cur) ==
    IF i > Len(s)
    THEN IF cur = <<>> THEN <<>> ELSE <<cur>>
    ELSE IF s[i] = NL
         THEN <<cur>> \o splitlines_from(s, i + 1, <<>>)
         ELSE splitlines_from(s, i + 1, Append(cur, s[i]))

splitlines(s) == splitlines_from(s, 1, <<>>)

\* obj.split(',')[0], line 155
RECURSIVE split_first(_)
split_first(line) ==
    IF line = <<>> \/ Head(line) = ","
    THEN <<>>
    ELSE <<Head(line)>> \o split_first(Tail(line))

AtomMatches(a, c) == IF a = D THEN c \in Digit ELSE a = c

AltMatchesAt(alt, s, p) ==
    /\ p + Len(alt) - 1 <= Len(s)
    /\ \A k \in 1..Len(alt) : AtomMatches(alt[k], s[p + k - 1])

RECURSIVE GroupsMatchAt(_, _, _)
GroupsMatchAt(gs, s, p) ==
    IF gs = <<>>
    THEN TRUE
    ELSE \E alt \in Head(gs) :
            /\ AltMatchesAt(alt, s, p)
            /\ GroupsMatchAt(Tail(gs), s, p + Len(alt))

\* re.match in place of re.search: only the start of the string is tried
SearchStarts_match(pat, s) == {1}

\* the start positions re.search tries
SearchStarts(pat, s) == IF pat.anchored THEN {1} ELSE 1..(Len(s) + 1)

\* re.search(args.pattern, obj) != None, line 156
re_search(pat, s) == \E p \in SearchStarts(pat, s) : GroupsMatchAt(pat.groups, s, p)

\* the defaulting of lines 104-105 left out
DefaultExclude_none(e, pat) == e

\* lines 104-105
DefaultExclude(e, pat) == IF e = FALSE THEN pat = default_pattern ELSE e

\* lines 107-108
Extension(t) ==
    IF t = plain_svg
    THEN <<".","p","l","a","i","n","-","s","v","g",".","s","v","g">>
    ELSE t

\* line 157
Kept(excl, match) == (excl /\ ~match) \/ (~excl /\ match)

\* line 158
DestFile(dir, obj, ext) == dir \o obj \o <<".">> \o ext

\* export = False in place of export = args.force
ExportDefault_false(f) == FALSE

\* line 159
ExportDefault(f) == f

\* the test of args.silent left out of line 161
NeedsConfirm_loud(f, exists, s) == ~f /\ exists

\* lines 160-161: whether confirm() is called
NeedsConfirm(f, exists, s) == ~f /\ exists /\ ~s

\* an empty answer taken as yes, whatever resp is
ConfirmAnswer_yes(ans, resp) ==
    IF ans = "" THEN "yes"
    ELSE IF ans \notin {"y", "Y", "n", "N"} THEN "again"
    ELSE IF ans \in {"y", "Y"} THEN "yes"
    ELSE "no"

\* one pass of the loop of confirm(), lines 138-147, with resp its default
ConfirmAnswer(ans, resp) ==
    IF ans = "" THEN (IF resp THEN "yes" ELSE "no")
    ELSE IF ans \notin {"y", "Y", "n", "N"} THEN "again"
    ELSE IF ans \in {"y", "Y"} THEN "yes"
    ELSE "no"

\* subprocess.Popen in place of check_call: no wait for the child
Returned_nowait(running) == TRUE

\* subprocess.check_call / check_output return only when the child has
\* exited, lines 93-95
Returned(running) == running = {}

\* the except clause without its sys.exit(2)
VerifyOutcome_goon(ok) == [pc |-> "configure", exitcode |-> -1]

\* try/except around the version query, lines 97-102
VerifyOutcome(ok) ==
    IF ok THEN [pc |-> "configure", exitcode |-> -1]
    ELSE [pc |-> "exit", exitcode |-> 2]

\* subprocess.call in place of check_call: the failure is ignored
ExportOutcome_ignored(ok) == [pc |-> "status", exitcode |-> -1]

\* run(command, shell=True) raises CalledProcessError on failure and nothing
\* catches it, line 165
ExportOutcome(ok) ==
    IF ok THEN [pc |-> "status", exitcode |-> -1]
    ELSE [pc |-> "exit", exitcode |-> 1]

\* the for loops of lines 151 and 154 take the items in order
NextIndex(i) == i + 1

----------------------------------------------------------------------------
(* The script *)

NoId == <<>>

Event(e, f, o, id, ans, existed) ==
    [ev |-> e, f |-> f, o |-> o, id |-> id, ans |-> ans, existed |-> existed]

Invocation(kind, file, id, dest) ==
    [kind |-> kind, file |-> file, id |-> id, dest |-> dest]

Status(e, f, o, id) == IF silent THEN <<>> ELSE <<Event(e, f, o, id, "", FALSE)>>

Init ==
    /\ infiles \in InFileLists
    /\ pattern \in Patterns
    /\ cli_exclude \in BOOLEAN
    /\ exclude = cli_exclude
    /\ destdir \in DestDirs
    /\ silent \in BOOLEAN
    /\ force \in BOOLEAN
    /\ type \in TypeChoices
    /\ extension = <<>>
    /\ pc = "verify"
    /\ fi = 1
    /\ objects = <<>>
    /\ oi = 1
    /\ destfile = <<>>
    /\ retries = 0
    /\ \E S \in SUBSET PreExisting :
          fs = { DestFile(destdir, id, Extension(type)) : id \in S }
                 \cup (IF S = {} THEN {} ELSE {destdir})
    /\ inflight = {}
    /\ result = TRUE
    /\ exitcode = -1
    /\ queried = <<>>
    /\ examined = <<>>
    /\ trace = <<>>

\* line 98: run([args.inkscape, "-V"])
Verify ==
    /\ pc = "verify"
    /\ inflight' = inflight \cup {Invocation("version", "", NoId, <<>>)}
    /\ trace' = Append(trace, Event("version", 0, 0, NoId, "", FALSE))
    /\ pc' = "verify_wait"
    /\ UNCHANGED <<config, exclude, extension, fi, objects, oi, destfile,
                   retries, fs, result, exitcode, queried, examined>>

\* the external program ends, with success or not; a successful export
\* has written its destination file
ChildExit ==
    \E inv \in inflight, ok \in BOOLEAN :
        /\ inflight' = inflight \ {inv}
        /\ result' = ok
        /\ fs' = IF inv.kind = "export" /\ ok THEN fs \cup {inv.dest} ELSE fs
        /\ trace' = Append(trace,
                Event(IF ok THEN "child_ok" ELSE "child_fail",
                      IF inv.kind = "version" THEN 0 ELSE fi,
                      IF inv.kind = "export" THEN oi ELSE 0,
                      inv.id, "", FALSE))
        /\ UNCHANGED <<config, exclude, extension, pc, fi, objects, oi,
                       destfile, retries, exitcode, queried, examined>>

\* lines 97-102
VerifyReturn ==
    /\ pc = "verify_wait"
    /\ Returned(inflight)
    /\ pc' = VerifyOutcome(result).pc
    /\ exitcode' = VerifyOutcome(result).exitcode
    /\ UNCHANGED <<config, exclude, extension, fi, objects, oi, destfile,
                   retries, fs, inflight, result, queried, examined, trace>>

\* lines 104-111; os.makedirs may fail, which nothing catches
Configure ==
    /\ pc = "configure"
    /\ exclude' = DefaultExclude(exclude, pattern)
    /\ extension' = Extension(type)
    /\ IF destdir \in fs
       THEN /\ fs' = fs
            /\ pc' = "file_loop"
            /\ exitcode' = exitcode
       ELSE \E made \in BOOLEAN :
            /\ fs' = IF made THEN fs \cup {destdir} ELSE fs
            /\ pc' = IF made THEN "file_loop" ELSE "exit"
            /\ exitcode' = IF made THEN exitcode ELSE 1
    /\ UNCHANGED <<config, fi, objects, oi, destfile, retries, inflight,
                   result, queried, examined, trace>>

\* lines 151-153: next infile, or the end of the script
FileLoop ==
    /\ pc = "file_loop"
    /\ IF fi > Len(infiles)
       THEN /\ pc' = "exit"
            /\ exitcode' = 0
            /\ UNCHANGED <<inflight, queried, examined, trace>>
       ELSE /\ inflight' = inflight \cup
                    {Invocation("query", infiles[fi], NoId, <<>>)}
            /\ queried' = Append(queried, infiles[fi])
            /\ examined' = <<>>
            /\ trace' = Status("exporting_from", fi, 0, NoId)
                          \o <<Event("query", fi, 0, NoId, "", FALSE)>>
            /\ pc' = "query_wait"
            /\ exitcode' = exitcode
    /\ UNCHANGED <<config, exclude, extension, fi, objects, oi, destfile,
                   retries, fs, result>>

\* line 153 returns, line 154 starts
QueryReturn ==
    /\ pc = "query_wait"
    /\ Returned(inflight)
    /\ IF result
       THEN /\ objects' = splitlines(QueryAll(infiles[fi]))
            /\ oi' = 1
            /\ pc' = "obj_loop"
            /\ exitcode' = exitcode
       ELSE /\ pc' = "exit"
            /\ exitcode' = 1
            /\ UNCHANGED <<objects, oi>>
    /\ UNCHANGED <<config, exclude, extension, fi, destfile, retries, fs,
                   inflight, result, queried, examined, trace>>

\* lines 154-165 for one obj, up to the prompt or the launch of the export
ObjLoop ==
    /\ pc = "obj_loop"
    /\ IF oi > Len(objects)
       THEN /\ fi' = NextIndex(fi)
            /\ pc' = "file_loop"
            /\ UNCHANGED <<oi, destfile, inflight, examined, trace>>
       ELSE LET obj == split_first(objects[oi])
                match == re_search(pattern, obj)
                df == DestFile(destdir, obj, extension)
                exists == df \in fs
            IN  /\ examined' = Append(examined, objects[oi])
                /\ IF ~Kept(exclude, match)
                   THEN /\ oi' = NextIndex(oi)
                        /\ trace' = <<Event("dropped", fi, oi, obj, "", FALSE)>>
                        /\ UNCHANGED <<pc, fi, destfile, inflight>>
                   ELSE /\ destfile' = df
                        /\ fi' = fi
                        /\ IF NeedsConfirm(force, exists, silent)
                           THEN /\ pc' = "confirm"
                                /\ trace' = <<Event("kept", fi, oi, obj, "", exists)>>
                                /\ UNCHANGED <<oi, inflight>>
                           ELSE IF ExportDefault(force)
                           THEN /\ pc' = "export_wait"
                                /\ inflight' = inflight \cup
                                       {Invocation("export", infiles[fi], obj, df)}
                                /\ trace' =
                                       <<Event("kept", fi, oi, obj, "", exists),
                                         Event("export", fi, oi, obj, "", exists)>>
                                /\ oi' = oi
                           ELSE /\ pc' = "obj_loop"
                                /\ oi' = NextIndex(oi)
                                /\ trace' =
                                       <<Event("kept", fi, oi, obj, "", exists),
                                         Event("skip", fi, oi, obj, "", exists)>>
                                /\ inflight' = inflight
    /\ UNCHANGED <<config, exclude, extension, objects, retries, fs, result,
                   exitcode, queried>>

\* one pass of the loop of confirm(), lines 137-147, and lines 163-165
Confirm ==
    /\ pc = "confirm"
    /\ \E ans \in Answers :
        LET r == ConfirmAnswer(ans, FALSE)
            obj == split_first(objects[oi])
            shown == Event("prompt", fi, oi, obj, ans, TRUE)
        IN  /\ r = "again" => retries < MaxRetries
            /\ IF r = "again"
               THEN /\ retries' = retries + 1
                    /\ trace' = Append(trace, shown)
                    /\ UNCHANGED <<pc, oi, inflight>>
               ELSE IF r = "yes"
               THEN /\ retries' = 0
                    /\ pc' = "export_wait"
                    /\ inflight' = inflight \cup
                            {Invocation("export", infiles[fi], obj, destfile)}
                    /\ trace' = trace \o
                            <<shown, Event("export", fi, oi, obj, "", TRUE)>>
                    /\ oi' = oi
               ELSE /\ retries' = 0
                    /\ pc' = "obj_loop"
                    /\ oi' = NextIndex(oi)
                    /\ trace' = trace \o
                            <<shown, Event("skip", fi, oi, obj, "", TRUE)>>
                    /\ inflight' = inflight
    /\ UNCHANGED <<config, exclude, extension, fi, objects, destfile, fs,
                   result, exitcode, queried, examined>>

\* line 165 returns or raises; line 166
ExportReturn ==
    /\ pc = "export_wait"
    /\ Returned(inflight)
    /\ LET out == ExportOutcome(result)
       IN  IF out.pc = "status"
           THEN /\ trace' = trace \o
                        Status("status", fi, oi, split_first(objects[oi]))
                /\ oi' = NextIndex(oi)
                /\ pc' = "obj_loop"
                /\ exitcode' = exitcode
           ELSE /\ pc' = out.pc
                /\ exitcode' = out.exitcode
                /\ UNCHANGED <<oi, trace>>
    /\ UNCHANGED <<config, exclude, extension, fi, objects, destfile, retries,
                   fs, inflight, result, queried, examined>>

Next ==
    \/ Verify
    \/ ChildExit
    \/ VerifyReturn
    \/ Configure
    \/ FileLoop
    \/ QueryReturn
    \/ ObjLoop
    \/ Confirm
    \/ ExportReturn

Spec == Init /\ [][Next]_vars

----------------------------------------------------------------------------
(* Vocabulary of the properties *)

Has(e) == \E i \in DOMAIN trace : trace[i].ev = e

Count(e) == Cardinality({i \in DOMAIN trace : trace[i].ev = e})

IsPrefix(a, b) == Len(a) <= Len(b) /\ SubSeq(b, 1, Len(a)) = a

RECURSIVE JoinLines(_)
JoinLines(lines) ==
    IF lines = <<>> THEN <<>>
    ELSE Head(lines) \o <<NL>> \o JoinLines(Tail(lines))

\* w is a word of the language of the groups gs
RECURSIVE InLanguage(_, _)
InLanguage(gs, w) ==
    IF gs = <<>>
    THEN w = <<>>
    ELSE \E k \in 0..Len(w) : \E alt \in Head(gs) :
            /\ Len(alt) = k
            /\ \A j \in 1..k : IF alt[j] = D THEN w[j] \in Digit ELSE w[j] = alt[j]
            /\ InLanguage(Tail(gs), SubSeq(w, k + 1, Len(w)))

\* some substring of id is a word of the pattern (at the start of id when
\* the pattern starts with ^)
SubstringMatch(pat, id) ==
    \E a \in 0..Len(id) : \E b \in a..Len(id) :
        /\ pat.anchored => a = 0
        /\ InLanguage(pat.groups, SubSeq(id, a + 1, b))

Configured == extension # <<>>

PlainSvgSuffix == <<".","p","l","a","i","n","-","s","v","g",".","s","v","g">>

----------------------------------------------------------------------------
(* C1 *)

\* C1: every kept identifier whose destination file does not exist when the
\* decision is taken has the export command invoked, whatever force and
\* silent are.
C1_ExportWhenMissing ==
    \A i \in DOMAIN trace :
        (trace[i].ev = "kept" /\ ~trace[i].existed) => Has("export")

(* C2 *)

\* C2: with type plain-svg the destination of a kept identifier I is
\* destdir followed by I followed by .plain-svg.svg.
C2_PlainSvgDestination ==
    \A i \in DOMAIN trace :
        (trace[i].ev = "kept" /\ type = plain_svg)
            => destfile = destdir \o trace[i].id \o PlainSvgSuffix

(* C3 *)

\* C3: an identifier reported by the query is kept iff, in include mode, a
\* substring match of the pattern is found in it and, in exclude mode, none
\* is; an identifier that is not kept causes no export invocation and no
\* prompt.
C3_KeptIffMatch ==
    /\ \A i \in DOMAIN trace :
        trace[i].ev \in {"kept", "dropped"} =>
            /\ trace[i].id = split_first(examined[Len(examined)])
            /\ trace[i].ev = "kept" <=>
                    IF exclude THEN ~SubstringMatch(pattern, trace[i].id)
                    ELSE SubstringMatch(pattern, trace[i].id)
    /\ Has("dropped") =>
            /\ ~Has("export") /\ ~Has("prompt")
            /\ inflight = {} /\ pc \notin {"confirm", "export_wait"}

\* a digit found after the start of the identifier keeps it in include mode
C3_Witness ==
    /\ pattern = pattern_digit /\ ~exclude
    /\ \E i \in DOMAIN trace :
          trace[i].ev = "kept" /\ trace[i].id = <<"i","c","o","n","1">>

(* C4 *)

\* C4: after configuration exclude mode is on if -e was given, and otherwise
\* exactly when the pattern is the default pattern.
C4_EffectiveExclude ==
    Configured =>
        /\ exclude = (cli_exclude \/ pattern = default_pattern)
        /\ (pattern # default_pattern /\ ~cli_exclude) => ~exclude
        /\ (pattern # default_pattern /\ cli_exclude) => exclude
        /\ pattern = default_pattern => exclude

\* the default pattern without -e has turned exclude mode on
C4_Witness ==
    Configured /\ ~cli_exclude /\ pattern = default_pattern /\ exclude

(* C5 *)

\* C5: in silent mode without force no prompt is shown, no export is
\* invoked for a kept identifier whose destination exists, and the skip is
\* no error: the script goes on with the next identifier.
C5_SilentNeverOverwrites ==
    (silent /\ ~force) =>
        /\ ~Has("prompt") /\ pc # "confirm"
        /\ \A i \in DOMAIN trace :
            (trace[i].ev = "kept" /\ trace[i].existed) =>
                /\ ~Has("export")
                /\ \A inv \in inflight : inv.kind # "export"
                /\ i < Len(trace) /\ trace[i + 1].ev = "skip"
                /\ oi = trace[i].o + 1
                /\ exitcode \in {-1, 0}
                /\ pc \in {"obj_loop", "file_loop", "exit"}

\* an existing destination has been skipped in silent mode
C5_Witness ==
    /\ silent /\ ~force /\ pc = "obj_loop"
    /\ \E i \in DOMAIN trace : trace[i].ev = "kept" /\ trace[i].existed

(* C6 *)

\* C6: with force every kept identifier gets exactly one export invocation,
\* whether its destination exists or not and whether silent is set or not,
\* and no prompt is shown.
C6_ForceAlwaysExports ==
    force =>
        /\ ~Has("prompt") /\ pc # "confirm"
        /\ Has("kept") => Count("kept") = 1 /\ Count("export") = 1
        /\ \A i \in DOMAIN trace :
            trace[i].ev = "export" =>
                /\ i > 1 /\ trace[i - 1].ev = "kept"
                /\ trace[i - 1].o = trace[i].o /\ trace[i - 1].id = trace[i].id

\* an existing destination is exported again in silent force mode
C6_Witness ==
    /\ force /\ silent
    /\ \E i \in DOMAIN trace : trace[i].ev = "export" /\ trace[i].existed

(* C7 *)

\* C7: with force and silent off and the destination existing, the user is
\* prompted and the export is invoked iff the answer is y or Y; an empty
\* answer, n and N skip; any other answer prompts again before anything else
\* happens.
C7_PromptDecides ==
    (~force /\ ~silent) =>
        \A i \in DOMAIN trace :
            /\ (trace[i].ev = "kept" /\ trace[i].existed) =>
                    IF i = Len(trace) THEN pc = "confirm"
                    ELSE trace[i + 1].ev = "prompt"
            /\ trace[i].ev = "prompt" =>
                    IF trace[i].ans \in {"y", "Y"}
                    THEN i < Len(trace) /\ trace[i + 1].ev = "export"
                    ELSE IF trace[i].ans \in {"", "n", "N"}
                    THEN i < Len(trace) /\ trace[i + 1].ev = "skip"
                    ELSE IF i = Len(trace) THEN pc = "confirm" /\ inflight = {}
                    ELSE trace[i + 1].ev = "prompt"
            /\ (trace[i].ev = "export" /\ trace[i].existed) =>
                    /\ i > 1 /\ trace[i - 1].ev = "prompt"
                    /\ trace[i - 1].ans \in {"y", "Y"}

\* an invalid answer, then Y, then the export
C7_Witness ==
    /\ ~force /\ ~silent
    /\ \E i \in DOMAIN trace :
          /\ trace[i].ev = "prompt" /\ trace[i].ans = "x"
          /\ i + 2 <= Len(trace)
          /\ trace[i + 1].ev = "prompt" /\ trace[i + 1].ans = "Y"
          /\ trace[i + 2].ev = "export"

VersionFailed == \E i \in DOMAIN trace : trace[i].ev = "child_fail" /\ trace[i].f = 0

(* C8 *)

\* C8: when the version query fails the script exits with code 2 before any
\* file processing: no query-all, no export and no prompt in that run.
C8_ToolNotFound ==
    /\ VersionFailed =>
        /\ pc \in {"verify_wait", "exit"}
        /\ pc = "exit" => exitcode = 2
        /\ queried = <<>> /\ examined = <<>> /\ inflight = {}
        /\ ~Has("query") /\ ~Has("export") /\ ~Has("prompt")
    /\ exitcode = 2 => VersionFailed /\ pc = "exit"
    /\ pc = "exit" => ~ENABLED Next

\* the version query has failed and the script has exited
C8_Witness == VersionFailed /\ pc = "exit" /\ exitcode = 2

ExportFailed == \E i \in DOMAIN trace : trace[i].ev = "child_fail" /\ trace[i].o > 0

(* C9 *)

\* C9: a failed export invocation is not caught: the run ends with a
\* non-zero status, and no query, export, prompt or status line follows.
C9_ExportFailureAborts ==
    /\ ExportFailed =>
        /\ trace[Len(trace)].ev = "child_fail"
        /\ pc \in {"export_wait", "exit"}
        /\ pc = "exit" => exitcode \notin {-1, 0}
        /\ inflight = {}
    /\ pc = "exit" => ~ENABLED Next

\* an export of the second infile has failed and ended the run
C9_Witness ==
    ExportFailed /\ pc = "exit" /\ exitcode = 1 /\ fi = 2 /\ Len(infiles) = 2

(* C10 *)

Rank(e) ==
    CASE e = "exporting_from" -> 0
      [] e \in {"version", "query"} -> 1
      [] e \in {"kept", "dropped"} -> 2
      [] e = "prompt" -> 3
      [] e \in {"export", "skip"} -> 4
      [] e \in {"child_ok", "child_fail"} -> 5
      [] OTHER -> 6

\* C10: infiles are handled in the order given; the query of an infile
\* precedes every decision on it; identifiers are decided and exported in
\* the order the query reported them; the exports of an infile are over before
\* the next query starts; at most one external invocation is in progress.
C10_Sequential ==
    /\ IsPrefix(queried, infiles)
    /\ Len(queried) \in {fi - 1, fi}
    /\ pc \in {"query_wait", "obj_loop", "confirm", "export_wait"}
            => Len(queried) = fi
    /\ pc = "query_wait" => examined = <<>>
    /\ queried # <<>> =>
            IsPrefix(JoinLines(examined), QueryAll(queried[Len(queried)]))
    /\ pc = "obj_loop" => Len(examined) = oi - 1
    /\ pc \in {"confirm", "export_wait"} => Len(examined) = oi
    /\ \A i \in DOMAIN trace :
            /\ trace[i].ev \in {"kept", "dropped", "prompt", "export", "skip", "status"}
                    => /\ trace[i].f = Len(queried)
                       /\ trace[i].o = Len(examined)
                       /\ trace[i].id = split_first(examined[Len(examined)])
            /\ i < Len(trace) => Rank(trace[i].ev) <= Rank(trace[i + 1].ev)
    /\ Cardinality(inflight) <= 1
    /\ \A inv \in inflight :
            /\ pc = (CASE inv.kind = "version" -> "verify_wait"
                       [] inv.kind = "query" -> "query_wait"
                       [] OTHER -> "export_wait")
            /\ inv.kind # "version" => inv.file = infiles[fi]
            /\ inv.kind = "export" => inv.id = split_first(examined[Len(examined)])

\* the second identifier of the second infile is being exported
C10_Witness ==
    /\ Len(queried) = 2 /\ pc = "export_wait" /\ oi = 2
    /\ \E inv \in inflight : inv.kind = "export"

====
